---- MODULE Spec2Model ----
(***************************************************************************)
(* A model of scripts/generate-rss.js: one run of main() (fetch, read the  *)
(* body, extract the news items, build the feed, write docs/feed.xml) and  *)
(* the pure functions it is built from.                                    *)
(*                                                                         *)
(* Texts are TLA+ strings, read character by character with SubSeq.        *)
(* A Date is its time value in hours since the epoch: every Date the       *)
(* script builds is Date.UTC(y, m, d, 12, 0, 0), a whole number of hours   *)
(* (the script's milliseconds divided by 3 600 000).                       *)
(***************************************************************************)
EXTENDS Integers, Sequences, FiniteSets, TLC

\* ------------------------------------------------------------------ texts

Char(s, i) == SubSeq(s, i, i)

Digits == {"0", "1", "2", "3", "4", "5", "6", "7", "8", "9"}

\* \d of the regular expression
IsDigit(c) == c \in Digits

\* \s of the regular expression, and the characters String.prototype.trim strips
IsSpace(c) == c \in {" ", "\t", "\n"}

UpperCase == "ABCDEFGHIJKLMNOPQRSTUVWXYZÅÄÖ"

LowerCase == "abcdefghijklmnopqrstuvwxyzåäö"

\* String.prototype.toLowerCase, one character
ToLowerChar(c) ==
  LET hits == {i \in 1..Len(UpperCase) : Char(UpperCase, i) = c}
  IN IF hits = {} THEN c ELSE Char(LowerCase, CHOOSE i \in hits : TRUE)

RECURSIVE ToLowerCase(_)
ToLowerCase(s) ==
  IF s = "" THEN "" ELSE ToLowerChar(Char(s, 1)) \o ToLowerCase(Tail(s))

RECURSIVE TrimStart(_)
TrimStart(s) ==
  IF s # "" /\ IsSpace(Char(s, 1)) THEN TrimStart(Tail(s)) ELSE s

RECURSIVE TrimEnd(_)
TrimEnd(s) ==
  IF s # "" /\ IsSpace(Char(s, Len(s)))
  THEN TrimEnd(SubSeq(s, 1, Len(s) - 1))
  ELSE s

\* a trim that forgets the end of the text
TrimStartOnly(s) == TrimStart(s)

\* String.prototype.trim
Trim(s) == TrimEnd(TrimStart(s))

\* String.prototype.startsWith
StartsWith(s, p) == Len(s) >= Len(p) /\ SubSeq(s, 1, Len(p)) = p

\* String.prototype.includes
Includes(s, p) ==
  \E i \in 1..(Len(s) + 1) : i + Len(p) - 1 <= Len(s) /\ SubSeq(s, i, i + Len(p) - 1) = p

DigitVal(c) == CHOOSE n \in 0..9 : Char("0123456789", n + 1) = c

\* parseInt(s, 10) of a text of digits
RECURSIVE ParseInt(_)
ParseInt(s) ==
  IF s = "" THEN 0
  ELSE 10 * ParseInt(SubSeq(s, 1, Len(s) - 1)) + DigitVal(Char(s, Len(s)))

\* the decimal text of a natural number
RECURSIVE NatToStr(_)
NatToStr(n) ==
  IF n < 10 THEN Char("0123456789", n + 1)
  ELSE NatToStr(n \div 10) \o Char("0123456789", (n % 10) + 1)

RECURSIVE PadStart(_, _)
PadStart(s, w) == IF Len(s) >= w THEN s ELSE PadStart("0" \o s, w)

\* ------------------------------------------------------------------ dates

SOURCE_URL == "https://www.hsb.se/stockholm/brf/svetsaren/nyheter/"

MonthNames ==
  << "januari", "februari", "mars", "april", "maj", "juni", "juli",
     "augusti", "september", "oktober", "november", "december" >>

\* SWEDISH_MONTHS[monthName]: the month index 0..11, or -1 where the table has none
SWEDISH_MONTHS(monthName) ==
  LET hits == {i \in 1..12 : MonthNames[i] = monthName}
  IN IF hits = {} THEN -1 ELSE (CHOOSE i \in hits : TRUE) - 1

NoMatch == [ok |-> FALSE, day |-> "", month |-> "", year |-> ""]

\* the first index at or after i that holds no white space
RECURSIVE SkipSpaces(_, _)
SkipSpaces(s, i) ==
  IF i <= Len(s) /\ IsSpace(Char(s, i)) THEN SkipSpaces(s, i + 1) ELSE i

\* (januari|...|december) under the i flag, at index i: the text matched, or "".
\* The i flag compares the letters without their case: low is s in lower case.
MonthAt(s, low, i) ==
  LET hits == {k \in 1..12 :
                 /\ i + Len(MonthNames[k]) - 1 <= Len(s)
                 /\ SubSeq(low, i, i + Len(MonthNames[k]) - 1) = MonthNames[k]}
  IN IF hits = {} THEN ""
     ELSE LET k == CHOOSE k \in hits : TRUE
          IN SubSeq(s, i, i + Len(MonthNames[k]) - 1)

\* the match of /(\d{1,2})\s+(month)\s+(\d{4})/i that starts at index i.
\* \d{1,2} is greedy, and giving a digit back never helps: white space must follow.
MatchAt(s, low, i) ==
  IF ~(i <= Len(s) /\ IsDigit(Char(s, i))) THEN NoMatch
  ELSE
    LET nd == IF i + 1 <= Len(s) /\ IsDigit(Char(s, i + 1)) THEN 2 ELSE 1
        j  == i + nd
        k  == SkipSpaces(s, j)
        mo == MonthAt(s, low, k)
        l  == k + Len(mo)
        p  == SkipSpaces(s, l)
    IN IF /\ k > j
          /\ mo # ""
          /\ p > l
          /\ p + 3 <= Len(s)
          /\ \A q \in p..(p + 3) : IsDigit(Char(s, q))
       THEN [ok |-> TRUE, day |-> SubSeq(s, i, j - 1), month |-> mo,
             year |-> SubSeq(s, p, p + 3)]
       ELSE NoMatch

\* text.match(re): the leftmost match
Match(s) ==
  LET low    == ToLowerCase(s)
      starts == {i \in 1..Len(s) : MatchAt(s, low, i).ok}
  IN IF starts = {} THEN NoMatch
     ELSE MatchAt(s, low, CHOOSE i \in starts : \A j \in starts : i <= j)

\* days from 1970-01-01 to the first day of month index mi (0..11) of year y
DaysToMonth(y, mi) ==
  LET yy  == IF mi < 2 THEN y - 1 ELSE y
      era == yy \div 400
      yoe == yy - era * 400
      mp  == (mi + 10) % 12
      doy == (153 * mp + 2) \div 5
      doe == yoe * 365 + yoe \div 4 - yoe \div 100 + doy
  IN era * 146097 + doe - 719468

\* Date.UTC(year, monthIndex, day, 12, 0, 0), in hours. A year 0..99 means
\* 1900 + year, and a day past the month's end runs into the next month.
DateUTC(year, monthIndex, day) ==
  LET y == IF year <= 99 THEN 1900 + year ELSE year
  IN (DaysToMonth(y, monthIndex) + day - 1) * 24 + 12

NoDate == -1000000000

\* parseSwedishDate(text): the Date, or NoDate for null
parseSwedishDate(text) ==
  LET m == Match(text)
  IN IF ~m.ok THEN NoDate
     ELSE LET day        == ParseInt(m.day)
              monthName  == ToLowerCase(m.month)
              year       == ParseInt(m.year)
              monthIndex == SWEDISH_MONTHS(monthName)
          IN IF monthIndex = -1 THEN NoDate
             ELSE DateUTC(year, monthIndex, day)

\* the UTC calendar fields of a time value: year, month (1..12), day, hour and
\* day of the week (0 for Sunday)
UtcFields(t) ==
  LET days == t \div 24
      z    == days + 719468
      era  == z \div 146097
      doe  == z - era * 146097
      yoe  == (doe - doe \div 1460 + doe \div 36524 - doe \div 146096) \div 365
      doy  == doe - (365 * yoe + yoe \div 4 - yoe \div 100)
      mp   == (5 * doy + 2) \div 153
      d    == doy - (153 * mp + 2) \div 5 + 1
      m    == IF mp < 10 THEN mp + 3 ELSE mp - 9
      y    == yoe + era * 400 + (IF m <= 2 THEN 1 ELSE 0)
  IN [y |-> y, m |-> m, d |-> d, h |-> t % 24, wd |-> (days + 4) % 7]

\* Date.prototype.toISOString
toISOString(t) ==
  LET f == UtcFields(t)
  IN PadStart(NatToStr(f.y), 4) \o "-" \o PadStart(NatToStr(f.m), 2) \o "-"
       \o PadStart(NatToStr(f.d), 2) \o "T" \o PadStart(NatToStr(f.h), 2)
       \o ":00:00.000Z"

DayNames == << "Sun", "Mon", "Tue", "Wed", "Thu", "Fri", "Sat" >>

MonthAbbr ==
  << "Jan", "Feb", "Mar", "Apr", "May", "Jun", "Jul", "Aug", "Sep", "Oct",
     "Nov", "Dec" >>

\* toRfc822(date): new Date(date).toUTCString()
toRfc822(t) ==
  LET f == UtcFields(t)
  IN DayNames[f.wd + 1] \o ", " \o PadStart(NatToStr(f.d), 2) \o " "
       \o MonthAbbr[f.m] \o " " \o PadStart(NatToStr(f.y), 4) \o " "
       \o PadStart(NatToStr(f.h), 2) \o ":00:00 GMT"

\* ------------------------------------------------------------------ links

Accented == "åäöé"

Unaccented == "aaoe"

\* .normalize('NFD') and the removal of the combining marks, one character
StripAccent(c) ==
  LET hits == {i \in 1..Len(Accented) : Char(Accented, i) = c}
  IN IF hits = {} THEN c ELSE Char(Unaccented, CHOOSE i \in hits : TRUE)

IsSlugChar(c) == c \in Digits \/ \E i \in 1..26 : Char(LowerCase, i) = c

\* .replace(/[^a-z0-9]+/g, '-'): s is what is left to read, out what was written
RECURSIVE Dashes(_, _)
Dashes(s, out) ==
  IF s = "" THEN out
  ELSE LET c == Char(s, 1)
       IN IF IsSlugChar(c) THEN Dashes(Tail(s), out \o c)
          ELSE IF out # "" /\ Char(out, Len(out)) = "-" THEN Dashes(Tail(s), out)
          ELSE Dashes(Tail(s), out \o "-")

\* .replace(/(^-|-$)+/g, '')
StripDashes(s) ==
  LET a == IF StartsWith(s, "-") THEN Tail(s) ELSE s
  IN IF a # "" /\ Char(a, Len(a)) = "-" THEN SubSeq(a, 1, Len(a) - 1) ELSE a

RECURSIVE MapChars(_)
MapChars(s) ==
  IF s = "" THEN "" ELSE StripAccent(ToLowerChar(Char(s, 1))) \o MapChars(Tail(s))

\* slugify(text)
slugify(text) == StripDashes(Dashes(MapChars(text), ""))

Origin == "https://www.hsb.se"

\* new URL(href, SOURCE_URL).toString() for an href with no scheme, no dot
\* segment and nothing to escape: a network-path, an absolute-path or a
\* relative reference against the base, whose path ends in "/"
ResolveUrl(href) ==
  IF StartsWith(href, "//") THEN "https:" \o href
  ELSE IF StartsWith(href, "/") THEN Origin \o href
  ELSE SOURCE_URL \o href

\* line 147: the link of an anchor
fullLinkOf(href) ==
  IF StartsWith(href, "http") THEN href ELSE ResolveUrl(href)

\* line 149: the identity key of a candidate
KeyOf(title, date) == title \o "::" \o toISOString(date)

\* ------------------------------------------------------------- the document

\* An element of the loaded document: its tag, its href attribute ("" when it
\* has none), whether an .iteminformation block lies inside it, and the text
\* of that block's h3, .itemdate and .itemdescription.
El(tag, href, info, h3, itemdate, itemdescription) ==
  [tag |-> tag, href |-> href, info |-> info, h3 |-> h3, itemdate |-> itemdate,
   itemdescription |-> itemdescription]

\* lines 129 and 133: the anchors the loop looks into
Accepted(el) ==
  /\ el.tag = "a"
  /\ el.href # ""
  /\ Includes(el.href, "/nyheter/")
  /\ el.info

titleOf(el) == Trim(el.h3)

dateStrOf(el) == Trim(el.itemdate)

\* lines 153-159: the item pushed for an anchor
ItemOf(el) ==
  [title |-> titleOf(el), link |-> fullLinkOf(el.href), guid |-> fullLinkOf(el.href),
   pubDate |-> parseSwedishDate(dateStrOf(el)), description |-> Trim(el.itemdescription)]

\* no deduplication by guid at all
DedupByGuidNone(its) == its

\* byGuid.set without the has() test: the last item of each guid is kept
RECURSIVE DedupByGuidLast(_)
DedupByGuidLast(its) ==
  IF its = << >> THEN << >>
  ELSE LET n == Len(its)
           rest == DedupByGuidLast(SubSeq(its, 1, n - 1))
       IN IF \E i \in 1..Len(rest) : rest[i].guid = its[n].guid
          THEN [i \in 1..Len(rest) |->
                  IF rest[i].guid = its[n].guid THEN its[n] ELSE rest[i]]
          ELSE Append(rest, its[n])

\* lines 163-167: the first item of each guid, in the order of their first ones
RECURSIVE DedupByGuid(_)
DedupByGuid(its) ==
  IF its = << >> THEN << >>
  ELSE LET n == Len(its)
           rest == DedupByGuid(SubSeq(its, 1, n - 1))
       IN IF \E i \in 1..Len(rest) : rest[i].guid = its[n].guid
          THEN rest
          ELSE Append(rest, its[n])

\* the comparator of line 168
Compare(a, b) == b.pubDate - a.pubDate

\* an insertion before the items that compare equal: a sort that is not stable
InsertSortedBeforeEqual(sorted, it) ==
  LET k == Cardinality({i \in 1..Len(sorted) : Compare(sorted[i], it) < 0})
  IN SubSeq(sorted, 1, k) \o << it >> \o SubSeq(sorted, k + 1, Len(sorted))

\* the stable insertion of it into a sorted list: after everything that does
\* not compare greater
InsertSorted(sorted, it) ==
  LET k == Cardinality({i \in 1..Len(sorted) : Compare(sorted[i], it) <= 0})
  IN SubSeq(sorted, 1, k) \o << it >> \o SubSeq(sorted, k + 1, Len(sorted))

\* Array.prototype.sort with the comparator of line 168: a stable sort
RECURSIVE SortByDate(_)
SortByDate(its) ==
  IF its = << >> THEN << >>
  ELSE InsertSorted(SortByDate(SubSeq(its, 1, Len(its) - 1)), its[Len(its)])

FeedCap == 50

\* a slice that is one too long
SliceCapOffByOne(its) == SubSeq(its, 1, IF Len(its) < FeedCap + 1 THEN Len(its) ELSE FeedCap + 1)

\* unique.slice(0, 50)
SliceCap(its) == SubSeq(its, 1, IF Len(its) < FeedCap THEN Len(its) ELSE FeedCap)

\* -------------------------------------------------------------- the inputs

MaxAnchors == 3

MaxExtra == 1

\* the elements the small documents are made of
CoreEls ==
  { El("a", "/nyheter/a/", TRUE, "A b", "1 maj 2024", "Text"),
    El("a", "https://www.hsb.se/nyheter/a/", TRUE, "Cd", "2 maj 2024", ""),
    El("a", "/nyheter/b/", TRUE, " A b\n", "01 MAJ 2024", ""),
    El("a", "/nyheter/b/", TRUE, "Cd", "1 maj  2024", " t "),
    El("a", "http-arkiv/nyheter/d/", TRUE, "A  b", "31 april 2024", ""),
    El("div", "", TRUE, "Gh", "3 maj 2024", "") }

\* more elements, each alone in a document
SingleEls ==
  { El("a", "", TRUE, "A b", "1 maj 2024", ""),
    El("a", "/om-oss/", TRUE, "A b", "1 maj 2024", ""),
    El("a", "/nyheter/a/", FALSE, "", "", ""),
    El("a", "/nyheter/a/", TRUE, " \n", "1 maj 2024", ""),
    El("a", "/nyheter/a/", TRUE, "A b", "", ""),
    El("a", "/nyheter/a/", TRUE, "A b", "i dag", ""),
    El("a", "/nyheter/a/", TRUE, "A b", "1 maj2024", ""),
    El("a", "arkiv/nyheter/a/", TRUE, "A b", "1 januari 0050", ""),
    El("a", "//www.hsb.se/nyheter/a/", TRUE, "A b", "Publicerad: 131 Maj 20245", "") }

RECURSIVE SeqsUpTo(_, _)
SeqsUpTo(S, n) ==
  IF n = 0 THEN { << >> }
  ELSE LET shorter == SeqsUpTo(S, n - 1)
       IN shorter \cup {Append(q, e) : q \in {r \in shorter : Len(r) = n - 1}, e \in S}

\* String.prototype.toUpperCase, one character
ToUpperChar(c) ==
  LET hits == {i \in 1..Len(LowerCase) : Char(LowerCase, i) = c}
  IN IF hits = {} THEN c ELSE Char(UpperCase, CHOOSE i \in hits : TRUE)

RECURSIVE ToUpperCase(_)
ToUpperCase(s) ==
  IF s = "" THEN "" ELSE ToUpperChar(Char(s, 1)) \o ToUpperCase(Tail(s))

\* a month name in one of three letter cases
Spelling(name, k) ==
  IF k = 0 THEN name
  ELSE IF k = 1 THEN ToUpperCase(name)
  ELSE ToUpperChar(Char(name, 1)) \o Tail(name)

\* the text "<day> <month> <year>"
DateText(d, mi, y, k) ==
  NatToStr(d) \o " " \o Spelling(MonthNames[mi + 1], k) \o " " \o PadStart(NatToStr(y), 4)

DateDays == {1, 28, 29, 30, 31}

DateYears == {1900, 2000, 2023, 2024}

\* one anchor each, over the days, months and years of DateDays and DateYears
DatePages ==
  { << El("a", "/nyheter/a/", TRUE, "A b", DateText(d, mi, y, (d + mi) % 3), "") >> :
      d \in DateDays, mi \in 0..11, y \in DateYears }

\* n anchors with titles and links of their own; day i of "maj 2024" for the
\* i-th one ("up"), or three days in turn ("ties")
BigPage(n, shape) ==
  [i \in 1..n |->
     El("a", "/nyheter/" \o NatToStr(i) \o "/", TRUE, "N" \o NatToStr(i),
        NatToStr(IF shape = "up" THEN i ELSE (i % 3) + 1) \o " maj 2024",
        "")]

BigPages ==
  { BigPage(n, shape) : n \in (FeedCap - 1)..(FeedCap + MaxExtra),
                        shape \in {"up", "ties"} }

\* the two entries of the end-to-end scenario: Entry A in an anchor, Entry B
\* in a block that no anchor encloses
EntryA ==
  El("a", "/stockholm/brf/svetsaren/nyheter/nytt-kosystem-for-p-platser/", TRUE,
     "Nytt kösystem för p-platser", "02 november 2025", "")

EntryB == El("div", "", TRUE, "Vårstädning", "9 april 2024", "")

FixturePage == << EntryA, EntryB >>

Pages ==
  SeqsUpTo(CoreEls, MaxAnchors) \cup {<< e >> : e \in SingleEls} \cup DatePages
    \cup BigPages \cup {FixturePage, << EntryB >>}

\* the HTTP statuses the server answers with
Statuses == {200, 404, 500}

\* the build times (new Date()), in hours
Nows == {DateUTC(2025, 10, 3)}

\* ----------------------------------------------------------------- the run

VARIABLES
  pc,         \* where main() stands
  status,     \* res.status (0 before the response)
  page,       \* the loaded document: its elements in document order
  idx,        \* the element the $('a').each loop is at
  items,      \* extractItems: items
  seen,       \* extractItems: seen
  date,       \* extractItems: the last value of parseSwedishDate
  unique,     \* extractItems: unique, once sorted
  result,     \* main: items, what extractItems returned
  xml,        \* main: xml
  dirExists,  \* whether docs/ exists
  file,       \* docs/feed.xml: absent, as a previous run left it, cut short, or written
  err,        \* the error main() was rejected with ("" for none)
  exitCode    \* the exit status (-1 while running)

vars ==
  << pc, status, page, idx, items, seen, date, unique, result, xml, dirExists,
     file, err, exitCode >>

NoChannel ==
  [title |-> "", feed_url |-> "", site_url |-> "", language |-> "", pubDate |-> "",
   ttl |-> 0]

NoXml == [channel |-> NoChannel, items |-> << >>]

\* docs/feed.xml: what it is and, once written, what it holds
File(kind, content) == [kind |-> kind, xml |-> content]

Init ==
  /\ pc = "fetch"
  /\ status = 0
  /\ page = << >>
  /\ idx = 0
  /\ items = << >>
  /\ seen = {}
  /\ date = NoDate
  /\ unique = << >>
  /\ result = << >>
  /\ xml = NoXml
  /\ dirExists \in BOOLEAN
  /\ file \in {File("absent", NoXml), File("previous", NoXml)}
  /\ (file.kind = "previous" => dirExists)
  /\ err = ""
  /\ exitCode = -1

\* an ok that has no upper end
OkAlways(st) == st >= 200

\* res.ok
Ok(st) == st >= 200 /\ st <= 299

\* main() is rejected with e: the catch of line 217 is next
Throw(e) ==
  /\ pc' = "catch"
  /\ err' = e

\* line 173: the fetch resolves with a response
FetchResponds ==
  /\ pc = "fetch"
  /\ \E st \in Statuses : status' = st
  /\ pc' = "response"
  /\ UNCHANGED << page, idx, items, seen, date, unique, result, xml, dirExists,
                  file, err, exitCode >>

\* line 173: the fetch is rejected (the timeout of 20 s, or a network failure)
FetchRejects ==
  /\ pc = "fetch"
  /\ \E e \in {"network timeout", "request failed"} : Throw(e)
  /\ UNCHANGED << status, page, idx, items, seen, date, unique, result, xml,
                  dirExists, file, exitCode >>

\* lines 179-181
CheckOk ==
  /\ pc = "response"
  /\ IF Ok(status)
     THEN pc' = "text" /\ err' = err
     ELSE Throw("Failed to fetch source: " \o NatToStr(status))
  /\ UNCHANGED << status, page, idx, items, seen, date, unique, result, xml,
                  dirExists, file, exitCode >>

\* lines 182-183: the body arrives and is loaded
ReadBody ==
  /\ pc = "text"
  /\ \E p \in Pages : page' = p
  /\ pc' = "items"
  /\ UNCHANGED << status, idx, items, seen, date, unique, result, xml, dirExists,
                  file, err, exitCode >>

\* line 182: reading the body is rejected
ReadBodyRejects ==
  /\ pc = "text"
  /\ Throw("body timeout")
  /\ UNCHANGED << status, page, idx, items, seen, date, unique, result, xml,
                  dirExists, file, exitCode >>

\* lines 58-118: the $('.item').each loop reads the elements and keeps nothing
ItemLoop ==
  /\ pc = "items"
  /\ pc' = "anchors"
  /\ idx' = 1
  /\ items' = << >>
  /\ seen' = {}
  /\ UNCHANGED << status, page, date, unique, result, xml, dirExists, file, err,
                  exitCode >>

\* lines 124-160: one call of the $('a').each callback, or a pass over an
\* element that is no anchor
AnchorStep ==
  /\ pc = "anchors"
  /\ idx <= Len(page)
  /\ idx' = idx + 1
  /\ LET el  == page[idx]
         it  == ItemOf(el)
         key == KeyOf(it.title, it.pubDate)
     IN IF ~Accepted(el) \/ it.title = "" \/ dateStrOf(el) = ""
        THEN UNCHANGED << items, seen, date >>
        ELSE /\ date' = it.pubDate
             /\ IF it.pubDate = NoDate \/ key \in seen
                THEN UNCHANGED << items, seen >>
                ELSE /\ seen' = seen \cup {key}
                     /\ items' = Append(items, it)
  /\ UNCHANGED << pc, status, page, unique, result, xml, dirExists, file, err,
                  exitCode >>

\* lines 162-169 and 185
FinishExtract ==
  /\ pc = "anchors"
  /\ idx > Len(page)
  /\ unique' = SortByDate(DedupByGuid(items))
  /\ result' = SliceCap(unique')
  /\ pc' = "feed"
  /\ UNCHANGED << status, page, idx, items, seen, date, xml, dirExists, file, err,
                  exitCode >>

\* lines 187-196: the channel (the dash of the title is U+2013 in the source)
Channel(now) ==
  [title |-> "BRF Svetsaren - Nyheter", feed_url |-> "feed.xml",
   site_url |-> SOURCE_URL, language |-> "sv-SE", pubDate |-> toRfc822(now),
   ttl |-> 60 * 24]

\* lines 199-205: the item element of it (an empty description is left out)
FeedItem(it) ==
  [title |-> it.title, url |-> it.link, guid |-> it.guid,
   date |-> toRfc822(it.pubDate), description |-> it.description]

\* a document that lost its channel fields
FeedXmlNoChannel(its, now) ==
  [channel |-> NoChannel, items |-> [i \in 1..Len(its) |-> FeedItem(its[i])]]

\* lines 187-208: the document
FeedXml(its, now) ==
  [channel |-> Channel(now), items |-> [i \in 1..Len(its) |-> FeedItem(its[i])]]

\* lines 187-208
BuildFeed ==
  /\ pc = "feed"
  /\ \E now \in Nows : xml' = FeedXml(result, now)
  /\ pc' = "mkdir"
  /\ UNCHANGED << status, page, idx, items, seen, date, unique, result, dirExists,
                  file, err, exitCode >>

\* lines 209-211
EnsureDir ==
  /\ pc = "mkdir"
  /\ \/ /\ dirExists' = TRUE
        /\ pc' = "write"
        /\ err' = err
     \/ /\ ~dirExists
        /\ dirExists' = dirExists
        /\ Throw("EACCES: mkdir")
  /\ UNCHANGED << status, page, idx, items, seen, date, unique, result, xml, file,
                  exitCode >>

\* line 212: the file is written whole
WriteFile ==
  /\ pc = "write"
  /\ file' = File("written", xml)
  /\ pc' = "log"
  /\ UNCHANGED << status, page, idx, items, seen, date, unique, result, xml,
                  dirExists, err, exitCode >>

\* line 212: writeFileSync throws, before it opened the file or after
WriteFails ==
  /\ pc = "write"
  /\ \/ file' = file /\ Throw("EACCES: open")
     \/ file' = File("partial", NoXml) /\ Throw("ENOSPC: write")
  /\ UNCHANGED << status, page, idx, items, seen, date, unique, result, xml,
                  dirExists, exitCode >>

\* line 214, and the return of main(): the process ends
LogAndExit ==
  /\ pc = "log"
  /\ pc' = "exited"
  /\ exitCode' = 0
  /\ UNCHANGED << status, page, idx, items, seen, date, unique, result, xml,
                  dirExists, file, err >>

\* lines 217-221
Catch ==
  /\ pc = "catch"
  /\ pc' = "exited"
  /\ exitCode' = 1
  /\ UNCHANGED << status, page, idx, items, seen, date, unique, result, xml,
                  dirExists, file, err >>

Next ==
  \/ FetchResponds
  \/ FetchRejects
  \/ CheckOk
  \/ ReadBody
  \/ ReadBodyRejects
  \/ ItemLoop
  \/ AnchorStep
  \/ FinishExtract
  \/ BuildFeed
  \/ EnsureDir
  \/ WriteFile
  \/ WriteFails
  \/ LogAndExit
  \/ Catch

Spec == Init /\ [][Next]_vars

\* ---------------------------------------------------------------- the claims

Range(q) == {q[i] : i \in 1..Len(q)}

\* extractItems has just returned to main()
Returned == pc = "feed"

\* the fetch did not succeed: a status outside 2xx, or a rejected fetch
FetchFailed ==
  \/ status # 0 /\ status \notin 200..299
  \/ err \in {"network timeout", "request failed"}

\* C1: in a run whose fetch does not succeed the process can only go on to
\* exit with status 1 and docs/feed.xml is left as it was; the write is reached
\* only after a 2xx response, the whole extraction and the serialization.
C1_NoWriteOnFetchFailure ==
  /\ FetchFailed =>
       /\ pc \in {"response", "catch", "exited"}
       /\ file.kind \in {"absent", "previous"}
       /\ xml = NoXml
       /\ (pc = "exited" => exitCode = 1)
       /\ (pc # "exited" => exitCode = -1 /\ ENABLED Next)
  /\ (pc \in {"write", "log"} \/ file.kind \in {"partial", "written"}) =>
       /\ status \in 200..299
       /\ idx = Len(page) + 1
       /\ xml # NoXml
       /\ Len(xml.items) = Len(result)

C1_Witness ==
  /\ status = 500
  /\ pc = "exited"
  /\ exitCode = 1
  /\ file.kind = "previous"

\* C2: extractItems returns at most 50 items; when more than 50 survive the
\* deduplication it returns exactly 50 of them, and no item left out is more
\* recent than an item returned.
C2_AtMostFifty ==
  Returned =>
    /\ Len(result) <= 50
    /\ Range(result) \subseteq Range(unique)
    /\ Len(unique) <= 50 => Len(result) = Len(unique)
    /\ Len(unique) > 50 =>
         /\ Len(result) = 50
         /\ Cardinality(Range(result)) = 50
         /\ \A u \in Range(unique) \ Range(result) :
              \A r \in Range(result) : u.pubDate <= r.pubDate

C2_Witness ==
  /\ Returned
  /\ Len(unique) = 51
  /\ Len(result) = 50
  /\ \E u \in Range(unique) \ Range(result) :
       \A r \in Range(result) : u.pubDate < r.pubDate

\* the place of an item among the items pushed, which are in document order
\* (C10 states items in terms of the document)
PlaceOf(it) == CHOOSE k \in 1..Len(items) : items[k] = it

\* C3: the list extractItems returns is in descending order of publication
\* date, and items of the same date stand in the order they were met in.
C3_SortedStable ==
  Returned =>
    \A i, j \in 1..Len(result) :
      i < j =>
        /\ result[i].pubDate >= result[j].pubDate
        /\ result[i].pubDate = result[j].pubDate =>
             PlaceOf(result[i]) < PlaceOf(result[j])

C3_Witness ==
  /\ Returned
  /\ Len(result) = 3
  /\ result[1].pubDate > result[2].pubDate
  /\ result[2].pubDate = result[3].pubDate
  /\ PlaceOf(result[1]) > PlaceOf(result[3])

\* C4: no two items returned, and no two item elements of the feed, have the
\* same guid, and no two items returned have the same title and date.
C4_UniqueGuidAndKey ==
  /\ Returned =>
       \A i, j \in 1..Len(result) :
         i # j =>
           /\ result[i].guid # result[j].guid
           /\ << result[i].title, result[i].pubDate >>
                # << result[j].title, result[j].pubDate >>
  /\ \A i, j \in 1..Len(xml.items) : i # j => xml.items[i].guid # xml.items[j].guid

C4_Witness ==
  /\ Returned
  /\ Len(page) = 3
  /\ Len(items) = 3
  /\ Len(result) = 2
  /\ items[1].guid = items[2].guid

\* the candidates of a document, in document order: what the anchors that
\* pass the filters, with a title and a date that parses, stand for
Cands(p) ==
  LET C(i) == /\ Accepted(p[i])
              /\ titleOf(p[i]) # ""
              /\ dateStrOf(p[i]) # ""
              /\ parseSwedishDate(dateStrOf(p[i])) # NoDate
      F[n \in 0..Len(p)] ==
        IF n = 0 THEN << >>
        ELSE IF C(n) THEN Append(F[n - 1], ItemOf(p[n])) ELSE F[n - 1]
  IN F[Len(p)]

SameKey(a, b) == a.title = b.title /\ toISOString(a.pubDate) = toISOString(b.pubDate)

SameGuid(a, b) == a.guid = b.guid

\* the elements of q that nothing before them in q is Same as, in q's order
KeepFirst(q, Same(_, _)) ==
  LET F[n \in 0..Len(q)] ==
        IF n = 0 THEN << >>
        ELSE IF \E k \in 1..(n - 1) : Same(q[k], q[n]) THEN F[n - 1]
        ELSE Append(F[n - 1], q[n])
  IN F[Len(q)]

\* C10: of the candidates with one key the first is kept, then of the
\* survivors with one guid the first is kept, whatever their dates; every
\* item returned is a candidate as it was.
C10_FirstOccurrenceTwoStage ==
  Returned =>
    LET cands == Cands(page)
        kept  == KeepFirst(KeepFirst(cands, SameKey), SameGuid)
    IN /\ items = KeepFirst(cands, SameKey)
       /\ Range(unique) = Range(kept)
       /\ Len(unique) = Len(kept)
       /\ Range(result) \subseteq Range(cands)
       /\ Len(kept) <= 50 => Range(result) = Range(kept)

C10_Witness ==
  /\ Returned
  /\ Len(Cands(page)) = 3
  /\ Len(items) = 2
  /\ items[1].guid = items[2].guid
  /\ items[2].pubDate > items[1].pubDate
  /\ result = << items[1] >>

\* the extraction ran to its end (idx is 0 until the loop starts)
Extracted == idx > 0 /\ pc \notin {"items", "anchors"}

IoErrors == {"EACCES: mkdir", "EACCES: open", "ENOSPC: write"}

\* C7 as claimed: every run whose fetch succeeds and whose extraction yields
\* no item writes the empty feed and ends with exit status 0.
C7_EmptyRunAlwaysExitsZero ==
  (Extracted /\ result = << >> /\ pc = "exited") =>
    /\ exitCode = 0
    /\ file.kind = "written"

\* C7 as amended: a run whose fetch succeeds and whose extraction yields no item
\* serializes a feed with the channel and no item element, makes sure docs/
\* exists, and ends with exit status 0 and that feed in docs/feed.xml unless
\* creating the directory or writing the file fails; nothing but such an I/O
\* failure sends it to the error path.
C7_EmptyFeedWrittenUnlessIoFails ==
  (Extracted /\ result = << >>) =>
    /\ err \in IoErrors \cup {""}
    /\ pc # "feed" =>
         /\ xml.items = << >>
         /\ xml.channel.site_url = SOURCE_URL
         /\ xml.channel.language = "sv-SE"
         /\ xml.channel.ttl = 1440
    /\ pc \in {"write", "log"} => dirExists
    /\ pc = "log" => file = File("written", xml)
    /\ pc = "exited" =>
         IF err = ""
         THEN exitCode = 0 /\ dirExists /\ file = File("written", xml)
         ELSE exitCode = 1 /\ file.kind # "written"

C7_Witness ==
  /\ Extracted
  /\ result = << >>
  /\ Len(page) > 0
  /\ pc = "exited"
  /\ exitCode = 0
  /\ file.kind = "written"
  /\ file.xml.items = << >>

\* s without the white space at its two ends
StripEnds(s) ==
  LET ink == {i \in 1..Len(s) : ~IsSpace(Char(s, i))}
  IN IF ink = {} THEN ""
     ELSE SubSeq(s, CHOOSE i \in ink : \A j \in ink : i <= j,
                    CHOOSE i \in ink : \A j \in ink : i >= j)

\* s with every run of white space made one space, and none at its ends
RECURSIVE Squeeze(_)
Squeeze(s) ==
  IF s = "" THEN ""
  ELSE IF IsSpace(Char(s, 1))
  THEN (IF Len(s) > 1 /\ IsSpace(Char(s, 2)) THEN "" ELSE " ") \o Squeeze(Tail(s))
  ELSE Char(s, 1) \o Squeeze(Tail(s))

NormalizeSpace(s) == Squeeze(StripEnds(s))

\* an anchor of the document that yields a candidate
IsCand(el) ==
  /\ Accepted(el)
  /\ titleOf(el) # ""
  /\ dateStrOf(el) # ""
  /\ parseSwedishDate(dateStrOf(el)) # NoDate

\* the key line 149 builds for an element
KeyOfEl(el) == KeyOf(titleOf(el), parseSwedishDate(dateStrOf(el)))

\* two candidates with the same parsed date whose titles are equal up to Norm
Variants(a, b, Norm(_)) ==
  /\ IsCand(a)
  /\ IsCand(b)
  /\ Norm(a.h3) = Norm(b.h3)
  /\ parseSwedishDate(dateStrOf(a)) = parseSwedishDate(dateStrOf(b))

\* the items returned that stand for a or for a variant of it
Emitted(a, Norm(_)) ==
  {k \in 1..Len(result) :
     /\ Norm(result[k].title) = Norm(a.h3)
     /\ result[k].pubDate = parseSwedishDate(dateStrOf(a))}

\* C8 as claimed: two candidates with the same parsed date whose titles differ
\* only in white space (at the ends or in runs inside) have equal keys, and
\* only one of them is emitted.
C8_AnyWhitespaceCollapses ==
  Returned =>
    \A i, j \in 1..Len(page) :
      (i < j /\ Variants(page[i], page[j], NormalizeSpace)) =>
        /\ KeyOfEl(page[i]) = KeyOfEl(page[j])
        /\ Cardinality(Emitted(page[i], NormalizeSpace)) <= 1

\* C8 as amended: two candidates with the same parsed date whose titles differ
\* only in white space at their ends have equal keys, and at most one of them
\* is emitted.
C8_EndWhitespaceCollapses ==
  Returned =>
    \A i, j \in 1..Len(page) :
      (i < j /\ Variants(page[i], page[j], StripEnds)) =>
        /\ KeyOfEl(page[i]) = KeyOfEl(page[j])
        /\ Cardinality(Emitted(page[i], StripEnds)) <= 1

C8_Witness ==
  /\ Returned
  /\ Len(page) = 2
  /\ page[1].h3 # page[2].h3
  /\ page[1].itemdate # page[2].itemdate
  /\ page[1].href # page[2].href
  /\ Variants(page[1], page[2], StripEnds)
  /\ Len(result) = 1

\* whether day d of month index mi of year y is a day of the calendar
IsLeap(y) == y % 4 = 0 /\ (y % 100 # 0 \/ y % 400 = 0)

DaysIn(mi, y) ==
  IF mi = 1 THEN (IF IsLeap(y) THEN 29 ELSE 28)
  ELSE IF mi \in {3, 5, 8, 10} THEN 30
  ELSE 31

\* C5: for a text "<day> <month> <year>" in any letter case, parseSwedishDate
\* yields noon UTC of that very day when the day is a day of the calendar, and
\* no result, so that no item is pushed, when it is not.
C5_ParseIsCalendarExact ==
  (pc = "anchors" /\ Len(page) = 1 /\ idx = 2 /\ IsCand(page[1])) =>
    \A d \in 1..31, mi \in 0..11, y \in DateYears, k \in 0..2 :
      page[1].itemdate = DateText(d, mi, y, k) =>
        IF d <= DaysIn(mi, y)
        THEN /\ date # NoDate
             /\ UtcFields(date) = [y |-> y, m |-> mi + 1, d |-> d, h |-> 12,
                                   wd |-> UtcFields(date).wd]
             /\ Len(items) = 1
        ELSE /\ date = NoDate
             /\ items = << >>

\* a block with a title and a date that parses which no news anchor stands for
LinklessEntry(el) ==
  /\ ~Accepted(el)
  /\ el.info
  /\ Trim(el.h3) # ""
  /\ parseSwedishDate(Trim(el.itemdate)) # NoDate

\* C6: when the pass over the anchors yields no item, a fallback pass emits
\* every entry that has a title and a date, with the source URL and the slug
\* of the title as its link; and the two entries of the scenario are both
\* emitted, Entry A first.
C6_FallbackEmitsLinklessEntries ==
  Returned =>
    /\ items = << >> =>
         \A i \in 1..Len(page) :
           LinklessEntry(page[i]) =>
             \E r \in Range(result) :
               /\ r.title = Trim(page[i].h3)
               /\ r.link = SOURCE_URL \o "#" \o slugify(r.title)
    /\ page = FixturePage =>
         /\ Len(result) = 2
         /\ result[1].title = "Nytt kösystem för p-platser"
         /\ result[2].title = "Vårstädning"

IsLetter(c) == \E i \in 1..26 : c \in {Char(LowerCase, i), Char(UpperCase, i)}

\* an absolute URL: a scheme (a letter, then letters, digits, "+", "-", "."),
\* then ":"
IsAbsoluteUrl(s) ==
  \E n \in 2..Len(s) :
    /\ Char(s, n) = ":"
    /\ IsLetter(Char(s, 1))
    /\ \A i \in 1..(n - 1) :
         IsLetter(Char(s, i)) \/ IsDigit(Char(s, i)) \/ Char(s, i) \in {"+", "-", "."}

\* C9: every item returned has an absolute URL as its link, and that link as
\* its guid.
C9_LinksAbsolute ==
  Returned =>
    \A r \in Range(result) : r.guid = r.link /\ IsAbsoluteUrl(r.link)

====
